---- MODULE Spec2Model ----
(***************************************************************************)
(* The weekly scheduling subsystem of armitage-news-scraper                *)
(* (src/scheduler.py): schedule generation, the schedule file, the         *)
(* session runner, the weekly completion path and the crontab entries.     *)
(*                                                                         *)
(* Every scheduler invocation (generate, run-session) is its own operating *)
(* system process started by cron; the processes share the schedule file,  *)
(* the crontab and the data directories.  The model interleaves them at    *)
(* the granularity of their file-system and crontab operations.            *)
(***************************************************************************)
EXTENDS Integers, Sequences, FiniteSets, TLC

(***************************************************************************)
(* Program constants (src/scheduler.py:33-36).                             *)
(***************************************************************************)
MIN_GROUP_SIZE == 1
MAX_GROUP_SIZE == 4
SCRAPE_HOUR_START == 9
SCRAPE_HOUR_END == 21
HOUR_RETRIES == 50

(***************************************************************************)
(* Bounds of the model.                                                    *)
(***************************************************************************)
\* longest company list given to generate_weekly_schedule on its own
MaxCompanies == 5
\* number of run-session processes that cron (or an operator) may start
MaxRunners == 2
\* number of generate processes that may be started
MaxGenerations == 2
\* number of scheduler processes that may be running at the same time
MaxAlive == 2
\* number of processes that may be killed
MaxCrashes == 1
\* the ghost counters of collaborator calls stop counting here
MaxCount == 2
\* the largest number of sessions _assign_schedule_slots is asked for
MaxSessions == 8
\* the longest trigger table the crontab functions start from
MaxLines == 3

\* the (name, location) rows a company list is made of
CompanyRows == {"acme", "globex"}

Min(a, b) == IF a <= b THEN a ELSE b


\* shuffled[i:j] of Python, on a 0-based half-open interval
Slice(s, i, j) == SubSeq(s, i + 1, Min(j, Len(s)))


(***************************************************************************)
(* The random source.  A draw is a nondeterministic choice over the        *)
(* outcomes the generator can produce.  random.shuffle is drawn from a     *)
(* family of permutations (the identity, the reversal, a rotation and a    *)
(* transposition); random.randint over hours and minutes is drawn from the *)
(* sets a caller passes in D, subsets of the program's ranges.             *)
(***************************************************************************)
AllHours == SCRAPE_HOUR_START .. (SCRAPE_HOUR_END - 1)
AllMinutes == 0 .. 59

\* draws used where the schedule's order and times are not what is examined
NarrowDraws == [perms |-> {"id"}, hours |-> {SCRAPE_HOUR_START}, minutes |-> {0}]
\* draws used where the partition is examined
PartitionDraws == [perms |-> {"id", "rev", "rot", "swp"},
                   hours |-> {SCRAPE_HOUR_START}, minutes |-> {0}]

Perm(name, n) ==
    [k \in 1..n |->
        CASE name = "id"  -> k
          [] name = "rev" -> n + 1 - k
          [] name = "rot" -> IF k = n THEN 1 ELSE k + 1
          [] name = "swp" -> IF k = 1 /\ n >= 2 THEN 2 ELSE IF k = 2 THEN 1 ELSE k]

\* random.shuffle(s): the outcomes drawn
Shuffles(s, D) == {[k \in 1..Len(s) |-> s[Perm(name, Len(s))[k]]] : name \in D.perms}

\* random.sample(s, n): n distinct positions of s in random order
Samples(s, n, D) == {SubSeq(t, 1, n) : t \in Shuffles(s, D)}

(***************************************************************************)
(* _partition_companies: shuffle, then walk left to right taking groups of *)
(* random size in MIN_GROUP_SIZE .. min(MAX_GROUP_SIZE, remaining).        *)
(***************************************************************************)
\* the while loop without the cap of MAX_GROUP_SIZE on a group:
\* max_take = remaining
RECURSIVE PartitionLoop_NoCap(_, _)
PartitionLoop_NoCap(shuffled, i) ==
    IF ~(i < Len(shuffled)) THEN {<<>>}
    ELSE UNION {
           {<<Slice(shuffled, i, i + group_size)>> \o rest :
                rest \in PartitionLoop_NoCap(shuffled, i + group_size)} :
           group_size \in MIN_GROUP_SIZE .. (Len(shuffled) - i)}

\* the while loop, from index i (0-based) of the shuffled list
RECURSIVE PartitionLoop(_, _)
PartitionLoop(shuffled, i) ==
    IF ~(i < Len(shuffled)) THEN {<<>>}
    ELSE LET remaining == Len(shuffled) - i
             max_take  == Min(MAX_GROUP_SIZE, remaining)
         IN  UNION {
               {<<Slice(shuffled, i, i + group_size)>> \o rest :
                    rest \in PartitionLoop(shuffled, i + group_size)} :
               group_size \in MIN_GROUP_SIZE .. max_take}

_partition_companies(companies, D) ==
    UNION {PartitionLoop(shuffled, 0) : shuffled \in Shuffles(companies, D)}

(***************************************************************************)
(* _assign_schedule_slots: days first, then an hour and a minute per day.  *)
(***************************************************************************)
available_days == <<1, 2, 3, 4, 5, 6>>

\* a for loop that never takes from the remainder: while it is positive
\* every day gets base + 1
RECURSIVE SpreadDays_KeepRemainder(_, _, _)
SpreadDays_KeepRemainder(k, base, remainder) ==
    IF k > Len(available_days) THEN <<>>
    ELSE LET count == base + (IF remainder > 0 THEN 1 ELSE 0)
         IN  [j \in 1..count |-> available_days[k]]
             \o SpreadDays_KeepRemainder(k + 1, base, remainder)

\* the for loop of the else branch: day k gets base + 1 while remainder lasts
RECURSIVE SpreadDays(_, _, _)
SpreadDays(k, base, remainder) ==
    IF k > Len(available_days) THEN <<>>
    ELSE LET count == base + (IF remainder > 0 THEN 1 ELSE 0)
         IN  [j \in 1..count |-> available_days[k]]
             \o SpreadDays(k + 1, base, IF remainder > 0 THEN remainder - 1 ELSE remainder)

DayAssignments(num_sessions, D) ==
    IF num_sessions <= Len(available_days)
    THEN Samples(available_days, num_sessions, D)
    ELSE Shuffles(SpreadDays(1, num_sessions \div Len(available_days),
                             num_sessions % Len(available_days)), D)

\* One slot: up to HOUR_RETRIES draws of an hour; the first draw that is not
\* in used_slots is taken and recorded.  When every draw hits a used slot
\* (possible only when the day already has a used hour among the draws), a
\* last draw is taken as it comes and is not recorded.
HourOutcomes(day, used_slots, D) ==
    {[hour |-> h, used |-> used_slots \cup {<<day, h>>}] :
        h \in {g \in D.hours : <<day, g>> \notin used_slots}}
    \cup
    (IF HOUR_RETRIES = 0 \/ \E g \in D.hours : <<day, g>> \in used_slots
     THEN {[hour |-> h, used |-> used_slots] : h \in D.hours}
     ELSE {})

RECURSIVE SlotLoop(_, _, _, _)
SlotLoop(day_assignments, k, used_slots, D) ==
    IF k > Len(day_assignments) THEN {<<>>}
    ELSE LET day == day_assignments[k]
         IN  UNION {
               {<<<<day, o.hour, minute>>>> \o rest :
                    minute \in D.minutes,
                    rest \in SlotLoop(day_assignments, k + 1, o.used, D)} :
               o \in HourOutcomes(day, used_slots, D)}

_assign_schedule_slots(num_sessions, D) ==
    UNION {SlotLoop(day_assignments, 1, {}, D) :
             day_assignments \in DayAssignments(num_sessions, D)}

(***************************************************************************)
(* generate_weekly_schedule.  A date is a day number, day 0 being a        *)
(* Monday, so that datetime.weekday() is the number modulo 7.  A timestamp *)
(* is a reading of the clock (see Reading), and None is 0.  session_id is  *)
(* the index idx that "sess_%03d" formats; day_name and generated_at, read *)
(* by nothing but the status display, are left out of the document.        *)
(***************************************************************************)
None == 0

weekday(today) == today % 7

\* the computation without lines 127-128: on a Monday, that same day
next_monday_SameDay(today) == today + ((7 - weekday(today)) % 7)

next_monday(today) ==
    LET d == (7 - weekday(today)) % 7
        days_until_monday == IF d = 0 THEN 7 ELSE d
    IN  today + days_until_monday

\* sessions.sort(key=(day, hour, minute)): a stable insertion sort
SessionKeyLeq(a, b) ==
    \/ a.day < b.day
    \/ a.day = b.day /\ a.hour < b.hour
    \/ a.day = b.day /\ a.hour = b.hour /\ a.minute <= b.minute

RECURSIVE InsertSession(_, _)
InsertSession(sorted, s) ==
    IF sorted = <<>> THEN <<s>>
    ELSE LET last == sorted[Len(sorted)]
         IN  IF SessionKeyLeq(last, s) THEN Append(sorted, s)
             ELSE Append(InsertSession(SubSeq(sorted, 1, Len(sorted) - 1), s), last)

RECURSIVE SortSessions(_)
SortSessions(sessions) ==
    IF sessions = <<>> THEN <<>>
    ELSE InsertSession(SortSessions(SubSeq(sessions, 1, Len(sessions) - 1)),
                       sessions[Len(sessions)])

\* the session built for the idx-th (0-based) pair of zip(groups, slots)
NewSession(idx, group, slot, monday) ==
    [session_id   |-> idx,
     day          |-> slot[1],
     date         |-> monday + (slot[1] - 1),
     hour         |-> slot[2],
     minute       |-> slot[3],
     companies    |-> group,
     status       |-> "pending",
     started_at   |-> None,
     completed_at |-> None]

BuildSchedule(companies, groups, slots, today) ==
    LET n == Min(Len(groups), Len(slots))
        sessions == [k \in 1..n |-> NewSession(k - 1, groups[k], slots[k], next_monday(today))]
    IN  [week_of         |-> next_monday(today),
         total_companies |-> Len(companies),
         digest_sent     |-> FALSE,
         sessions        |-> SortSessions(sessions)]

\* every schedule generate_weekly_schedule can return under the draws D
generate_weekly_schedule(companies, today, D) ==
    UNION {{BuildSchedule(companies, groups, slots, today) :
                slots \in _assign_schedule_slots(Len(groups), D)} :
           groups \in _partition_companies(companies, D)}

\* the value _load_schedule returns for a missing file, and the document of
\* a process that holds none
NoSchedule == [week_of |-> None, total_companies |-> 0, digest_sent |-> FALSE,
               sessions |-> <<>>]

(***************************************************************************)
(* The size of the text json.dump(schedule, f, indent=2) writes.  Two      *)
(* documents differ in size only where their values do: each number by its *)
(* digits, true against false, null against a timestamp of 19 characters   *)
(* in quotes, each status and day name by its letters, each company by its *)
(* two strings.  The rest (keys, quotes, indentation, the dates, the       *)
(* "sess_NNN" ids) is the same text in every document.                     *)
(***************************************************************************)
DAY_NAMES == <<"Monday", "Tuesday", "Wednesday", "Thursday", "Friday", "Saturday">>

\* every row of the company list is in the one city
Location == "Sydney"

Digits(n) == IF n < 10 THEN 1 ELSE IF n < 100 THEN 2 ELSE 3

TimestampLen(t) == IF t = None THEN 4 ELSE 21

CompanyLen(company) == 47 + Len(company) + Len(Location)

RECURSIVE CompaniesLen(_)
CompaniesLen(companies) ==
    IF companies = <<>> THEN 0
    ELSE CompanyLen(Head(companies)) + CompaniesLen(Tail(companies))
         + (IF Len(companies) > 1 THEN 1 ELSE 0)

SessionLen(session) ==
    238 + Digits(session.day) + Len(DAY_NAMES[session.day])
        + Digits(session.hour) + Digits(session.minute)
        + CompaniesLen(session.companies) + Len(session.status)
        + TimestampLen(session.started_at) + TimestampLen(session.completed_at)

RECURSIVE SessionsLen(_)
SessionsLen(sessions) ==
    IF sessions = <<>> THEN 0
    ELSE SessionLen(Head(sessions)) + SessionsLen(Tail(sessions))
         + (IF Len(sessions) > 1 THEN 1 ELSE 0)

DocLen(doc) ==
    133 + Digits(doc.total_companies) + (IF doc.digest_sent THEN 4 ELSE 5)
        + SessionsLen(doc.sessions)

(***************************************************************************)
(* State.                                                                  *)
(***************************************************************************)
VARIABLES
    schedule_file,  \* SCHEDULE_FILE: [state, doc, size]; state is "absent",
                    \* "truncated" (opened for writing, nothing written yet),
                    \* "written" (holds doc) or "corrupt" (holds a document
                    \* followed by the tail of a longer one)
    crontab,        \* the user's crontab: a sequence of lines
    csv,            \* data/input/companies.csv: [exists, rows]
    output_files,   \* whether data/output holds report files
    recipients,     \* whether EMAIL_RECIPIENTS names a recipient
    proc,           \* the scheduler processes: [pc, session_id, schedule, existing,
                    \* error, scraped, sent]; scraped is what scrape_companies
                    \* did, sent what became of the digest send
    calls,          \* what the collaborators and the cleanup have been asked to
                    \* do so far, per schedule (week_of): observation only
    persisted,      \* the last complete document the file has held (what an
                    \* observer last could read): observation only
    gen_in,         \* generate_weekly_schedule on its own: [companies, today]
    gen_out,        \* ... and what it returned: [done, schedule]
    slot_in,        \* _assign_schedule_slots on its own: num_sessions
    slot_out,       \* ... and what it returned: [done, slots]
    slot_run,       \* _assign_schedule_slots step by step: [num_sessions,
                    \* day_assignments, k, tries, hour, used_slots, slots, pc]
    cron_call       \* the crontab functions on their own: the last call, and
                    \* for a removal by tag the table it found,
                    \* [op, schedule, before]

vars == <<schedule_file, crontab, csv, output_files, recipients, proc, calls, persisted, gen_in, gen_out, slot_in, slot_out, cron_call, slot_run>>

sched_vars == <<schedule_file, crontab, csv, output_files, recipients, proc, calls, persisted>>

Runners == 1 .. MaxRunners
Generators == (MaxRunners + 1) .. (MaxRunners + MaxGenerations)
Procs == Runners \cup Generators

\* the company list the importer of main.py leaves in companies.csv
FullList == <<"acme", "globex">>
CsvLists == {<<>>, FullList}

\* the session ids run-session may be started with
SessionIds == 0 .. (Len(FullList) - 1)

\* the k-th generate runs on the Sunday that ends week k - 1
GenDay(g) == 6 + 7 * (g - MaxRunners - 1)
Weeks == {next_monday(GenDay(g)) : g \in Generators}

\* crontab lines: session and meta lines carry their tag; the others are
\* lines of other concerns ("other"), untagged lines that run a main.py, as
\* the one cron_setup.py used to install ("legacy"), and empty lines
\* ("blank")
OtherLine == [kind |-> "other", minute |-> 0, hour |-> 0, day |-> 0, session_id |-> 0]
LegacyLine == [kind |-> "legacy", minute |-> 0, hour |-> 0, day |-> 0, session_id |-> 0]
MetaLine == [kind |-> "meta", minute |-> 0, hour |-> 22, day |-> 0, session_id |-> 0]
BlankLine == [kind |-> "blank", minute |-> 0, hour |-> 0, day |-> 0, session_id |-> 0]
SessionLine(session) ==
    [kind |-> "session", minute |-> session.minute, hour |-> session.hour,
     day |-> session.day, session_id |-> session.session_id]

IdleProc == [pc |-> "idle", session_id |-> 0, schedule |-> NoSchedule,
             existing |-> <<>>, error |-> "none", scraped |-> "none",
             sent |-> "none"]

Absent == [state |-> "absent", doc |-> NoSchedule, size |-> 0]
Truncated == [state |-> "truncated", doc |-> NoSchedule, size |-> 0]
Written(doc) == [state |-> "written", doc |-> doc, size |-> DocLen(doc)]
Corrupt(size) == [state |-> "corrupt", doc |-> NoSchedule, size |-> size]

\* the pure-function harness at rest
GenIdle ==
    /\ gen_in = [companies |-> <<>>, today |-> 0]
    /\ gen_out = [done |-> FALSE, schedule |-> NoSchedule]

SlotIdle ==
    /\ slot_in = 0
    /\ slot_out = [done |-> FALSE, slots |-> <<>>]

SlotRunIdle ==
    slot_run = [num_sessions |-> 0, day_assignments |-> <<>>, k |-> 0, tries |-> 0,
                hour |-> None, used_slots |-> {}, slots |-> <<>>, pc |-> "idle"]

CronIdle == cron_call = [op |-> "none", schedule |-> NoSchedule, before |-> <<>>]

\* a fresh installation: generate has not run
InitFiles ==
    /\ schedule_file = Absent
    /\ csv = [exists |-> TRUE, rows |-> FullList]
    /\ output_files = FALSE
    /\ recipients \in BOOLEAN
    /\ proc = [p \in Procs |-> IdleProc]
    /\ calls = [scrape  |-> [w \in Weeks |-> [sid \in SessionIds |-> 0]],
                digest  |-> [w \in Weeks |-> 0],
                cleanup |-> [w \in Weeks |-> 0],
                uncron  |-> [w \in Weeks |-> 0],
                \* a session of the schedule has been persisted as terminal
                terminal |-> [w \in Weeks |-> FALSE],
                \* ... and had been when the next generate loaded the schedule
                due      |-> [w \in Weeks |-> FALSE]]
    /\ persisted = NoSchedule

\* ... and install-meta has
InitScheduler ==
    /\ InitFiles
    /\ crontab = <<OtherLine, LegacyLine, MetaLine>>

Init == InitScheduler /\ GenIdle /\ SlotIdle /\ SlotRunIdle /\ CronIdle

(***************************************************************************)
(* Schedule file I/O.  _load_schedule takes no lock: it reads whatever the *)
(* file holds, and json.load raises on a file that is not one document.    *)
(* _save_schedule opens the file with mode "w", which truncates it at      *)
(* once, before flock is asked for; the lock then covers json.dump only.   *)
(* A dump is one step here, so the lock, held only within that step, is no *)
(* state of the model: what it cannot cover, the truncation, is the step   *)
(* before it.                                                              *)
(***************************************************************************)
_load_schedule ==
    CASE schedule_file.state = "absent"    -> [result |-> "none", doc |-> NoSchedule]
      [] schedule_file.state = "truncated" -> [result |-> "raise", doc |-> NoSchedule]
      [] schedule_file.state = "corrupt"   -> [result |-> "raise", doc |-> NoSchedule]
      [] schedule_file.state = "written"   -> [result |-> "doc", doc |-> schedule_file.doc]

\* where a process goes on after each of its _save_schedule calls
AfterOpen(pc) ==
    CASE pc = "save1_open" -> "save1_dump"
      [] pc = "save2_open" -> "save2_dump"
      [] pc = "save3_open" -> "save3_dump"
      [] pc = "gsave_open" -> "gsave_dump"

AfterDump(pc) ==
    CASE pc = "save1_dump" -> "scrape"
      [] pc = "save2_dump" -> "check"
      [] pc = "save3_dump" -> "cleanup"
      [] pc = "gsave_dump" -> "inst_read"

\* open(SCHEDULE_FILE, "w")
SaveSchedule_Open(p) ==
    /\ proc[p].pc \in {"save1_open", "save2_open", "save3_open", "gsave_open"}
    /\ schedule_file' = Truncated
    /\ proc' = [proc EXCEPT ![p].pc = AfterOpen(@)]
    /\ UNCHANGED <<recipients, crontab, csv, output_files, calls, persisted, gen_in, gen_out, slot_in, slot_out, cron_call, slot_run>>

\* what the file holds once the process's document has been dumped into it.
\* The process writes from offset 0 of the file it opened: whatever another
\* writer has put there since is overwritten, and what reaches beyond the
\* end of this document stays behind it.
DumpedFile(doc) ==
    IF schedule_file.size <= DocLen(doc) THEN Written(doc)
    ELSE Corrupt(schedule_file.size)

\* flock(LOCK_EX); json.dump(schedule, f); flock(LOCK_UN); close
SaveSchedule_Dump(p) ==
    /\ proc[p].pc \in {"save1_dump", "save2_dump", "save3_dump", "gsave_dump"}
    /\ schedule_file' = DumpedFile(proc[p].schedule)
    /\ persisted' = IF schedule_file'.state = "written" THEN schedule_file'.doc
                    ELSE persisted
    /\ calls' = IF proc[p].pc = "save2_dump"
                THEN [calls EXCEPT !.terminal[proc[p].schedule.week_of] = TRUE]
                ELSE calls
    /\ proc' = [proc EXCEPT ![p].pc = AfterDump(@)]
    /\ UNCHANGED <<recipients, crontab, csv, output_files, gen_in, gen_out, slot_in, slot_out, cron_call, slot_run>>

(***************************************************************************)
(* run_session                                                             *)
(***************************************************************************)
Terminal(status) == status \in {"completed", "failed"}

_all_sessions_done(schedule) ==
    \A k \in DOMAIN schedule.sessions : Terminal(schedule.sessions[k].status)

\* a search that falls back on the first session when none has the id
FindSession_FirstIfNone(schedule, session_id) ==
    LET hits == {k \in DOMAIN schedule.sessions :
                    schedule.sessions[k].session_id = session_id}
    IN  IF hits = {} THEN (IF schedule.sessions = <<>> THEN 0 ELSE 1)
        ELSE CHOOSE k \in hits : \A j \in hits : k <= j

\* the position of the first session with this id, 0 when there is none
FindSession(schedule, session_id) ==
    LET hits == {k \in DOMAIN schedule.sessions :
                    schedule.sessions[k].session_id = session_id}
    IN  IF hits = {} THEN 0 ELSE CHOOSE k \in hits : \A j \in hits : k <= j

\* a counter of calls, which stops counting at MaxCount
Counted(n) == IF n < MaxCount THEN n + 1 ELSE n

\* a process's exit states
Exited(p) == proc[p].pc \in {"done", "raised", "crashed"}

Alive == {q \in Procs : proc[q].pc # "idle" /\ ~Exited(q)}

\* cron (or an operator) may start one more process
MayStart == Cardinality(Alive) < MaxAlive

\* datetime.now() as process p reads it for the k-th time.  Each reading is
\* a value of its own, so that the timestamps of two invocations are told
\* apart; the order of the readings in time is not modelled.
Reading(p, k) == 2 * (p - 1) + k

\* the session's fields as run_session sets them before the first save
MarkInProgress(session, p) ==
    [session EXCEPT !.status = "in_progress", !.started_at = Reading(p, 1)]

\* a guard that lets an in_progress session through: only a terminal
\* session is skipped
AlreadyRun_TerminalOnly(session) == Terminal(session.status)

\* the re-entrancy guard of line 266
AlreadyRun(session) == session.status # "pending"

\* lines 251-272: load, find the session, the re-entrancy guard, and the
\* in-memory transition to in_progress
RunSession_Load(p, session_id) ==
    /\ p \in Runners
    /\ proc[p].pc = "idle"
    /\ MayStart
    /\ IF p = 1 THEN TRUE ELSE proc[p - 1].pc # "idle"
    /\ LET loaded == _load_schedule
           k == FindSession(loaded.doc, session_id)
       IN  CASE loaded.result = "raise" ->
                  /\ proc' = [proc EXCEPT ![p].pc = "raised",
                                          ![p].session_id = session_id,
                                          ![p].error = "JSONDecodeError"]
             [] loaded.result = "none" ->
                  /\ proc' = [proc EXCEPT ![p].pc = "done", ![p].session_id = session_id]
             [] loaded.result = "doc" /\ k = 0 ->
                  /\ proc' = [proc EXCEPT ![p].pc = "done", ![p].session_id = session_id]
             [] loaded.result = "doc" /\ k # 0
                  /\ AlreadyRun(loaded.doc.sessions[k]) ->
                  /\ proc' = [proc EXCEPT ![p].pc = "done", ![p].session_id = session_id]
             [] OTHER ->
                  /\ proc' = [proc EXCEPT
                        ![p].pc = "save1_open",
                        ![p].session_id = session_id,
                        ![p].schedule = [loaded.doc EXCEPT
                            !.sessions[k] = MarkInProgress(@, p)]]
    /\ UNCHANGED <<recipients, schedule_file, crontab, csv, output_files, calls, persisted, gen_in, gen_out, slot_in, slot_out, cron_call, slot_run>>

\* a terminal status without the stamp of completed_at
MarkTerminal_NoStamp(session, status, p) == [session EXCEPT !.status = status]

\* the session's fields as run_session sets them after the collaborator
MarkTerminal(session, status, p) ==
    [session EXCEPT !.status = status, !.completed_at = Reading(p, 2)]

\* what scrape_companies can do
ScrapeOutcomes == {"returns", "raises"}

\* a try/except that sets the same status on both branches
ScrapeStatus_AlwaysCompleted(outcome) == "completed"

\* lines 278-283: the status set on each branch of the try/except
ScrapeStatus(outcome) == IF outcome = "returns" THEN "completed" ELSE "failed"

\* lines 278-285: scrape_companies returns (completed) or raises (failed);
\* the reports it writes land in data/output
RunSession_Scrape(p) ==
    /\ proc[p].pc = "scrape"
    /\ LET schedule == proc[p].schedule
           k == FindSession(schedule, proc[p].session_id)
       IN  /\ \E outcome \in ScrapeOutcomes :
                 proc' = [proc EXCEPT
                    ![p].pc = "save2_open",
                    ![p].scraped = outcome,
                    ![p].schedule = [schedule EXCEPT
                        !.sessions[k] = MarkTerminal(@, ScrapeStatus(outcome), p)]]
           /\ calls' = [calls EXCEPT
                 !.scrape[schedule.week_of][proc[p].session_id] = Counted(@)]
    /\ output_files' = TRUE
    /\ UNCHANGED <<recipients, schedule_file, crontab, csv, persisted, gen_in, gen_out, slot_in, slot_out, cron_call, slot_run>>

\* the condition of line 292, on the document just re-loaded
CompletionDue(schedule) ==
    _all_sessions_done(schedule) /\ ~schedule.digest_sent

\* lines 291-294: re-load and decide whether the week is complete
RunSession_Check(p) ==
    /\ proc[p].pc = "check"
    /\ LET loaded == _load_schedule
       IN  CASE loaded.result = "raise" ->
                  proc' = [proc EXCEPT ![p].pc = "raised", ![p].scraped = "none",
                                       ![p].error = "JSONDecodeError"]
             [] loaded.result = "doc" /\ CompletionDue(loaded.doc) ->
                  proc' = [proc EXCEPT ![p].pc = "send", ![p].scraped = "none",
                                       ![p].schedule = loaded.doc]
             [] OTHER ->
                  proc' = [proc EXCEPT ![p].pc = "done", ![p].scraped = "none",
                                       ![p].schedule = NoSchedule]
    /\ UNCHANGED <<recipients, schedule_file, crontab, csv, output_files, calls, persisted, gen_in, gen_out, slot_in, slot_out, cron_call, slot_run>>

(***************************************************************************)
(* _send_digest_and_cleanup, run by a session runner or by generate        *)
(***************************************************************************)
\* a completion path that also empties the list of sessions
MarkDigestSent_DropSessions(schedule) ==
    [schedule EXCEPT !.digest_sent = TRUE, !.sessions = <<>>]

\* the document the completion path persists
MarkDigestSent(schedule) == [schedule EXCEPT !.digest_sent = TRUE]

\* what send_digest_report can do when it is called, and the one outcome
\* when it is not (no recipient configured)
SendOutcomes == IF recipients THEN {"true", "false", "raises"} ELSE {"skipped"}

\* a completion path without the try/except around the send: the exception
\* leaves it
AfterSend_Propagate(outcome) == IF outcome = "raises" THEN "raised" ELSE "save3_open"

\* lines 303-312: True, False and the exception are logged, and each way
\* the function goes on to line 314
AfterSend(outcome) == "save3_open"

\* lines 299-314: with recipients configured send_digest_report is called
\* and returns True, returns False or raises, all of which are only logged;
\* without recipients it is not called.  Then digest_sent is set in memory.
SendDigest(p) ==
    /\ proc[p].pc = "send"
    /\ calls' = IF ~recipients THEN calls
                ELSE [calls EXCEPT !.digest[proc[p].schedule.week_of] = Counted(@)]
    /\ \E outcome \in SendOutcomes :
          proc' = [proc EXCEPT ![p].pc = AfterSend(outcome),
                               ![p].sent = outcome,
                               ![p].error = IF AfterSend(outcome) = "raised"
                                            THEN "SendError" ELSE @,
                               ![p].schedule = MarkDigestSent(@)]
    /\ UNCHANGED <<recipients, schedule_file, crontab, csv, output_files, persisted, gen_in, gen_out, slot_in, slot_out, cron_call, slot_run>>

\* lines 318-325: every file of data/input and data/output is unlinked
CleanupData(p) ==
    /\ proc[p].pc = "cleanup"
    /\ csv' = [exists |-> FALSE, rows |-> <<>>]
    /\ output_files' = FALSE
    /\ calls' = [calls EXCEPT !.cleanup[proc[p].schedule.week_of] = Counted(@)]
    /\ proc' = [proc EXCEPT ![p].pc = "rm_read"]
    /\ UNCHANGED <<recipients, schedule_file, crontab, persisted, gen_in, gen_out, slot_in, slot_out, cron_call, slot_run>>

(***************************************************************************)
(* Crontab management.  Each function reads the table with "crontab -l"    *)
(* and writes it back with "crontab -": two steps of the process.          *)
(***************************************************************************)
HasSessionTag(l) == l.kind = "session"
HasMetaTag(l) == l.kind = "meta"
\* "main.py" in l and "ARMITAGE" not in l
IsOldStyle(l) == l.kind = "legacy"

\* _read_crontab
ReadCrontab(p) ==
    /\ proc[p].pc \in {"rm_read", "old_read", "inst_read"}
    /\ proc' = [proc EXCEPT
          ![p].existing = crontab,
          ![p].pc = CASE @ = "rm_read" -> "rm_write"
                      [] @ = "old_read" -> "old_write"
                      [] @ = "inst_read" -> "inst_write"]
    /\ UNCHANGED <<recipients, schedule_file, crontab, csv, output_files, calls, persisted, gen_in, gen_out, slot_in, slot_out, cron_call, slot_run>>

\* str.strip() on the joined lines: the empty lines at both ends go
RECURSIVE StripLeft(_)
StripLeft(lines) ==
    IF lines # <<>> /\ Head(lines) = BlankLine THEN StripLeft(Tail(lines)) ELSE lines

RECURSIVE StripRight(_)
StripRight(lines) ==
    IF lines # <<>> /\ lines[Len(lines)] = BlankLine
    THEN StripRight(SubSeq(lines, 1, Len(lines) - 1)) ELSE lines

Strip(lines) == StripLeft(StripRight(lines))

\* "\n".join(lines).strip() + "\n": a text of nothing but the newline
\* reads back as one empty line
JoinStripped(lines) == IF Strip(lines) = <<>> THEN <<BlankLine>> ELSE Strip(lines)

\* "\n".join(lines).strip() + "\n" if lines else ""
JoinStrippedOrEmpty(lines) == IF lines = <<>> THEN <<>> ELSE JoinStripped(lines)

\* a remove_session_crons that filters on both tags
remove_session_crons_BothTags(existing) ==
    JoinStrippedOrEmpty(
        SelectSeq(existing, LAMBDA l : ~HasSessionTag(l) /\ ~HasMetaTag(l)))

\* remove_session_crons, from the table read
remove_session_crons(existing) ==
    JoinStrippedOrEmpty(SelectSeq(existing, LAMBDA l : ~HasSessionTag(l)))

\* remove_session_crons (line 328), then back to the caller
RemoveSessionCrons_Write(p) ==
    /\ proc[p].pc = "rm_write"
    /\ crontab' = remove_session_crons(proc[p].existing)
    /\ calls' = [calls EXCEPT !.uncron[proc[p].schedule.week_of] = Counted(@)]
    /\ proc' = [proc EXCEPT ![p].pc = IF p \in Runners THEN "done" ELSE "old_read",
                            ![p].existing = <<>>,
                            ![p].sent = "none",
                            ![p].schedule = IF p \in Runners THEN NoSchedule ELSE @]
    /\ UNCHANGED <<recipients, schedule_file, csv, output_files, persisted, gen_in, gen_out, slot_in, slot_out, cron_call, slot_run>>

\* _remove_old_style_cron, from the table read
_remove_old_style_cron(existing) ==
    JoinStrippedOrEmpty(SelectSeq(existing, LAMBDA l : ~IsOldStyle(l)))

RemoveOldStyleCron_Write(p) ==
    /\ proc[p].pc = "old_write"
    /\ crontab' = _remove_old_style_cron(proc[p].existing)
    /\ proc' = [proc EXCEPT ![p].pc = "read_csv", ![p].existing = <<>>]
    /\ UNCHANGED <<recipients, schedule_file, csv, output_files, calls, persisted, gen_in, gen_out, slot_in, slot_out, cron_call, slot_run>>

\* an install_session_crons that appends to the table as it is
install_session_crons_Append(existing, schedule) ==
    JoinStripped(existing
        \o [k \in DOMAIN schedule.sessions |-> SessionLine(schedule.sessions[k])])

\* install_session_crons, from the table read
install_session_crons(existing, schedule) ==
    JoinStripped(SelectSeq(existing, LAMBDA l : ~HasSessionTag(l))
        \o [k \in DOMAIN schedule.sessions |-> SessionLine(schedule.sessions[k])])

\* an install_meta_cron that does not look for the tag first
install_meta_cron_Always(existing) ==
    IF Strip(existing) = <<>> THEN <<MetaLine>>
    ELSE Append(StripRight(existing), MetaLine)

\* install_meta_cron as a function of the table: unchanged when a line
\* carries the meta tag; else the table without its trailing empty lines,
\* then the meta line (the meta line alone when the table is blank)
install_meta_cron(existing) ==
    IF \E k \in DOMAIN existing : HasMetaTag(existing[k]) THEN existing
    ELSE IF Strip(existing) = <<>> THEN <<MetaLine>>
    ELSE Append(StripRight(existing), MetaLine)

\* remove_all_armitage_crons as a function of the table
remove_all_armitage_crons(existing) ==
    JoinStrippedOrEmpty(
        SelectSeq(existing, LAMBDA l : ~HasSessionTag(l) /\ ~HasMetaTag(l)))

InstallSessionCrons_Write(p) ==
    /\ proc[p].pc = "inst_write"
    /\ crontab' = install_session_crons(proc[p].existing, proc[p].schedule)
    /\ proc' = [proc EXCEPT ![p].pc = "status", ![p].existing = <<>>]
    /\ UNCHANGED <<recipients, schedule_file, csv, output_files, calls, persisted, gen_in, gen_out, slot_in, slot_out, cron_call, slot_run>>

(***************************************************************************)
(* generate_and_install                                                    *)
(***************************************************************************)
\* the condition of lines 343-345 on the previous schedule
\* the safety net without its any(...) test: due whenever digest_sent is false
SafetyNetDue_AnySchedule(old_schedule) == ~old_schedule.digest_sent

\* a safety net that waits for every session to be terminal
SafetyNetDue_AllDone(old_schedule) ==
    ~old_schedule.digest_sent /\ _all_sessions_done(old_schedule)

SafetyNetDue(old_schedule) ==
    /\ ~old_schedule.digest_sent
    /\ \E k \in DOMAIN old_schedule.sessions : Terminal(old_schedule.sessions[k].status)

\* lines 342-350: load the previous schedule and decide on the safety net.
\* Generations follow one another: the meta cron fires once a week.
Generate_Load(p) ==
    /\ p \in Generators
    /\ proc[p].pc = "idle"
    /\ MayStart
    /\ IF p = MaxRunners + 1 THEN TRUE ELSE Exited(p - 1)
    /\ LET loaded == _load_schedule
       IN  CASE loaded.result = "raise" ->
                  proc' = [proc EXCEPT ![p].pc = "raised", ![p].error = "JSONDecodeError"]
             [] loaded.result = "doc" /\ SafetyNetDue(loaded.doc) ->
                  proc' = [proc EXCEPT ![p].pc = "send", ![p].schedule = loaded.doc]
             [] OTHER ->
                  proc' = [proc EXCEPT ![p].pc = "old_read"]
    /\ calls' = IF _load_schedule.result = "doc"
                THEN [calls EXCEPT !.due[_load_schedule.doc.week_of] =
                                        calls.terminal[_load_schedule.doc.week_of]]
                ELSE calls
    /\ UNCHANGED <<recipients, schedule_file, crontab, csv, output_files, persisted, gen_in, gen_out, slot_in, slot_out, cron_call, slot_run>>

\* a generate_and_install that goes from the new schedule straight to
\* install_session_crons, without _save_schedule
AfterGenerate_InstallFirst == "inst_read"

\* lines 362-363: the new schedule is first saved
AfterGenerate == "gsave_open"

\* lines 356-361: read the company list and build the new schedule
Generate_ReadCsv(p) ==
    /\ proc[p].pc = "read_csv"
    /\ CASE ~csv.exists ->
              proc' = [proc EXCEPT ![p].pc = "raised", ![p].error = "FileNotFoundError"]
         [] csv.exists /\ csv.rows = <<>> ->
              proc' = [proc EXCEPT ![p].pc = "done", ![p].error = "NoCompanies"]
         [] OTHER ->
              \E schedule \in generate_weekly_schedule(csv.rows, GenDay(p), NarrowDraws) :
                 proc' = [proc EXCEPT ![p].pc = AfterGenerate, ![p].schedule = schedule]
    /\ UNCHANGED <<recipients, schedule_file, crontab, csv, output_files, calls, persisted, gen_in, gen_out, slot_in, slot_out, cron_call, slot_run>>

\* line 367, print_schedule_status: loads the schedule and prints it
PrintScheduleStatus(p) ==
    /\ proc[p].pc = "status"
    /\ proc' = IF _load_schedule.result = "raise"
               THEN [proc EXCEPT ![p].pc = "raised", ![p].error = "JSONDecodeError"]
               ELSE [proc EXCEPT ![p].pc = "done"]
    /\ UNCHANGED <<recipients, schedule_file, crontab, csv, output_files, calls, persisted, gen_in, gen_out, slot_in, slot_out, cron_call, slot_run>>

(***************************************************************************)
(* The environment: the importer of main.py (salesforce.py,                *)
(* write_companies_csv) writes the company list anew once the cleanup has  *)
(* deleted it, at the latest just before generate reads it (an earlier     *)
(* write that no cleanup follows leaves generate the same list); a process *)
(* may be killed.                                                          *)
(***************************************************************************)
WriteCompaniesCsv ==
    /\ ~csv.exists
    /\ \E g \in Generators : proc[g].pc = "read_csv"
    /\ \E rows \in CsvLists : csv' = [exists |-> TRUE, rows |-> rows]
    /\ UNCHANGED <<schedule_file, crontab, output_files, recipients, proc, calls, persisted, gen_in, gen_out, slot_in, slot_out, cron_call, slot_run>>

Crash(p) ==
    /\ proc[p].pc \notin {"idle", "done", "raised", "crashed"}
    /\ Cardinality({q \in Procs : proc[q].pc = "crashed"}) < MaxCrashes
    /\ proc' = [proc EXCEPT ![p].pc = "crashed", ![p].existing = <<>>,
                            ![p].scraped = "none", ![p].sent = "none",
                            ![p].schedule = NoSchedule]
    /\ UNCHANGED <<recipients, schedule_file, crontab, csv, output_files, calls, persisted, gen_in, gen_out, slot_in, slot_out, cron_call, slot_run>>

Step(p) ==
    \/ \E session_id \in SessionIds : RunSession_Load(p, session_id)
    \/ SaveSchedule_Open(p)
    \/ SaveSchedule_Dump(p)
    \/ RunSession_Scrape(p)
    \/ RunSession_Check(p)
    \/ SendDigest(p)
    \/ CleanupData(p)
    \/ ReadCrontab(p)
    \/ RemoveSessionCrons_Write(p)
    \/ RemoveOldStyleCron_Write(p)
    \/ InstallSessionCrons_Write(p)
    \/ Generate_Load(p)
    \/ Generate_ReadCsv(p)
    \/ PrintScheduleStatus(p)

\* no process is killed
Next ==
    \/ \E p \in Procs : Step(p)
    \/ WriteCompaniesCsv

Spec == Init /\ [][Next]_vars

\* any process may be killed between any two of its steps
NextCrash ==
    \/ Next
    \/ \E p \in Procs : Crash(p)

SpecCrash == Init /\ [][NextCrash]_vars

(***************************************************************************)
(* The session state machine and the weekly completion, over interleaved   *)
(* scheduler processes.                                                    *)
(***************************************************************************)
\* the session with this id in a document (the document holds one)
SessionOf(doc, session_id) == doc.sessions[FindSession(doc, session_id)]

HasSession(doc, session_id) == FindSession(doc, session_id) # 0

\* the steps of pending -> in_progress -> {completed, failed}
StatusStep(a, b) ==
    \/ a = b
    \/ a = "pending" /\ b = "in_progress"
    \/ a = "in_progress" /\ Terminal(b)

\* C1: from one persisted document of a schedule to the next, every
\* session's status stays or moves one step along pending -> in_progress ->
\* completed | failed; a persisted terminal status never changes.
C1_StatusMonotonic ==
    [][persisted.week_of = persisted'.week_of =>
          \A k \in DOMAIN persisted.sessions :
             LET session_id == persisted.sessions[k].session_id
             IN  HasSession(persisted', session_id) =>
                    StatusStep(persisted.sessions[k].status,
                               SessionOf(persisted', session_id).status)]_vars

\* C2: the work-group collaborator is executed at most once for every
\* session of a schedule.
C2_ScrapedAtMostOnce ==
    \A w \in Weeks : \A session_id \in SessionIds :
        calls.scrape[w][session_id] <= 1

\* C3: with no process killed, the digest-send collaborator is invoked at
\* most once for one schedule.
C3_DigestAtMostOnce ==
    \A w \in Weeks : calls.digest[w] <= 1

\* the schedule generation g replaces is the one generation g - 1 made
PreviousWeek(g) == next_monday(GenDay(g - 1))

\* C4: when a session of a schedule had reached a terminal state and
\* processes may be killed between any two steps, then once the next
\* generate_and_install has returned (no session runner still at work, a
\* recipient configured), the digest of that schedule has been sent exactly
\* once, its working directories have been emptied exactly once and its
\* session triggers removed exactly once.
C4_CycleExactlyOnce ==
    \A g \in Generators :
        (/\ g - 1 \in Generators
         /\ proc[g].pc = "done"
         /\ calls.due[PreviousWeek(g)]
         /\ recipients
         /\ \A p \in Runners : proc[p].pc = "idle" \/ Exited(p)) =>
            /\ calls.digest[PreviousWeek(g)] = 1
            /\ calls.cleanup[PreviousWeek(g)] = 1
            /\ calls.uncron[PreviousWeek(g)] = 1

\* C5: when run_session has executed two different sessions of the schedule
\* the file holds, every runner has returned and no later generation has
\* started, the persisted document shows both sessions in a terminal state
\* with started_at and completed_at set.
C5_NoLostStatus ==
    \A w \in Weeks : \A a, b \in SessionIds :
        (/\ a # b
         /\ calls.scrape[w][a] >= 1 /\ calls.scrape[w][b] >= 1
         /\ \A p \in Runners : proc[p].pc = "done"
         /\ \A g \in Generators : proc[g].pc \in {"idle", "done"}
         /\ schedule_file.state = "written" /\ schedule_file.doc.week_of = w)
        => \A session_id \in {a, b} :
              /\ HasSession(schedule_file.doc, session_id)
              /\ Terminal(SessionOf(schedule_file.doc, session_id).status)
              /\ SessionOf(schedule_file.doc, session_id).started_at # None
              /\ SessionOf(schedule_file.doc, session_id).completed_at # None

\* C6: once a new schedule is persisted, no later write brings an earlier
\* schedule back: the persisted week_of never decreases.
C6_WeekNeverReturns ==
    [][persisted.week_of <= persisted'.week_of]_vars

\* C7: no _load_schedule fails to parse the file: a load that runs while
\* another process saves reads a complete document.
C7_LoadNeverFails ==
    \A p \in Procs : proc[p].error # "JSONDecodeError"

\* C8 as claimed: in every persisted schedule, digest_sent implies that
\* every session is completed or failed.
C8_DigestSentImpliesAllDone ==
    (schedule_file.state = "written" /\ schedule_file.doc.digest_sent)
        => _all_sessions_done(schedule_file.doc)

\* C8 as amended: in every persisted schedule, digest_sent implies that at
\* least one session is completed or failed, and a session runner that
\* runs the completion path does so on a document in which every session
\* is completed or failed.
C8_DigestSentImpliesSomeDone ==
    /\ (schedule_file.state = "written" /\ schedule_file.doc.digest_sent)
          => \E k \in DOMAIN schedule_file.doc.sessions :
                Terminal(schedule_file.doc.sessions[k].status)
    /\ \A p \in Runners :
          proc[p].pc \in {"send", "save3_open", "save3_dump", "cleanup", "rm_read", "rm_write"}
              => /\ proc[p].schedule.sessions # <<>>
                 /\ _all_sessions_done(proc[p].schedule)

\* C8 witness: generate's safety net has persisted digest_sent on a schedule
\* that still holds a pending session beside a terminal one
C8_Witness ==
    /\ schedule_file.state = "written"
    /\ schedule_file.doc.digest_sent
    /\ \E k \in DOMAIN schedule_file.doc.sessions :
          schedule_file.doc.sessions[k].status = "pending"
    /\ \E k \in DOMAIN schedule_file.doc.sessions :
          Terminal(schedule_file.doc.sessions[k].status)
    /\ \E g \in Generators : proc[g].pc = "cleanup"

\* C9: within one schedule (one week_of), the persisted digest_sent never
\* goes back from true to false.
C9_DigestSentMonotonic ==
    [][(persisted.week_of = persisted'.week_of /\ persisted.digest_sent)
          => persisted'.digest_sent]_vars

(***************************************************************************)
(* generate_weekly_schedule as a function of its input: the company list   *)
(* and the day it runs on are drawn at the start, one step applies it.     *)
(***************************************************************************)
\* company lists of length 0..MaxCompanies
CompanyLists == UNION {[1..n -> CompanyRows] : n \in 0..MaxCompanies}

InitGenerate ==
    /\ InitScheduler
    /\ gen_in \in [companies : CompanyLists, today : 0..6]
    /\ gen_out = [done |-> FALSE, schedule |-> NoSchedule]
    /\ SlotIdle
    /\ SlotRunIdle
    /\ CronIdle

GenerateWeeklySchedule ==
    /\ ~gen_out.done
    /\ \E schedule \in generate_weekly_schedule(gen_in.companies, gen_in.today, PartitionDraws) :
          gen_out' = [done |-> TRUE, schedule |-> schedule]
    /\ UNCHANGED <<gen_in, slot_in, slot_out, slot_run, cron_call, sched_vars>>

NextGenerate == GenerateWeeklySchedule

SpecGenerate == InitGenerate /\ [][NextGenerate]_vars

\* how many times row c occurs in the list s
Occurrences(c, s) == Cardinality({k \in DOMAIN s : s[k] = c})

\* how many times row c occurs in the sessions' companies taken together
RECURSIVE OccurrencesInSessions(_, _)
OccurrencesInSessions(c, sessions) ==
    IF sessions = <<>> THEN 0
    ELSE Occurrences(c, Head(sessions).companies) + OccurrencesInSessions(c, Tail(sessions))

\* C10: the sessions of the schedule generate_weekly_schedule builds, taken
\* together, hold every row of the input list exactly as often as the input
\* does (a permutation: nothing omitted, nothing duplicated), and every
\* session holds between 1 and 4 companies.
C10_PartitionExact ==
    gen_out.done =>
        /\ \A c \in CompanyRows :
              OccurrencesInSessions(c, gen_out.schedule.sessions)
                  = Occurrences(c, gen_in.companies)
        /\ \A k \in DOMAIN gen_out.schedule.sessions :
              /\ Len(gen_out.schedule.sessions[k].companies) >= 1
              /\ Len(gen_out.schedule.sessions[k].companies) <= 4
        /\ gen_out.schedule.total_companies = Len(gen_in.companies)

\* C10 witness: a list longer than one group can hold was split into
\* several sessions, one of them full
C10_Witness ==
    /\ gen_out.done
    /\ Len(gen_in.companies) = MaxCompanies
    /\ Len(gen_out.schedule.sessions) >= 2
    /\ \E k \in DOMAIN gen_out.schedule.sessions :
          Len(gen_out.schedule.sessions[k].companies) = MAX_GROUP_SIZE
    /\ \E c, d \in CompanyRows : c # d /\ Occurrences(c, gen_in.companies) >= 1
                                        /\ Occurrences(d, gen_in.companies) >= 1

(***************************************************************************)
(* _assign_schedule_slots as a function of its input: the number of        *)
(* sessions is drawn at the start, one step applies it.  The hours are     *)
(* drawn from the first two of the window, the shuffles from the identity  *)
(* and the reversal: outcomes the generator can produce.                   *)
(***************************************************************************)
SlotDraws == [perms |-> {"id", "rev"},
              hours |-> {SCRAPE_HOUR_START, SCRAPE_HOUR_START + 1},
              minutes |-> {0}]

InitSlots ==
    /\ InitScheduler
    /\ GenIdle
    /\ slot_in \in 1 .. MaxSessions
    /\ slot_out = [done |-> FALSE, slots |-> <<>>]
    /\ SlotRunIdle
    /\ CronIdle

AssignScheduleSlots ==
    /\ ~slot_out.done
    /\ \E slots \in _assign_schedule_slots(slot_in, SlotDraws) :
          slot_out' = [done |-> TRUE, slots |-> slots]
    /\ UNCHANGED <<slot_in, gen_in, gen_out, slot_run, cron_call, sched_vars>>

NextSlots == AssignScheduleSlots

SpecSlots == InitSlots /\ [][NextSlots]_vars

\* C11: for 1 <= num_sessions <= 72 and every outcome of the draws, no two
\* of the slots _assign_schedule_slots returns share their (day, hour).
C11_NoSlotCollision ==
    (slot_out.done /\ slot_in <= 6 * (SCRAPE_HOUR_END - SCRAPE_HOUR_START)) =>
        \A j, k \in DOMAIN slot_out.slots :
            j # k => <<slot_out.slots[j][1], slot_out.slots[j][2]>>
                       # <<slot_out.slots[k][1], slot_out.slots[k][2]>>

\* C12: a run_session that finds its session not pending (in_progress,
\* completed or failed) in the document it loads returns at once and changes
\* nothing: the file and the persisted document (completed_at included),
\* the collaborator calls, the digest, the data files and the trigger table
\* stay as they were, and a process that has returned takes no further step.
C12_NonPendingIsNoOp ==
    [][\A p \in Runners :
          /\ (/\ proc[p].pc = "idle" /\ proc'[p].pc # "idle"
              /\ schedule_file.state = "written"
              /\ HasSession(schedule_file.doc, proc'[p].session_id)
              /\ SessionOf(schedule_file.doc, proc'[p].session_id).status # "pending")
             => /\ proc'[p].pc = "done"
                /\ UNCHANGED <<schedule_file, persisted, calls, crontab, csv, output_files>>
          /\ proc[p].pc = "done" => proc'[p] = proc[p]]_vars

\* C12 witness: two invocations for session 0 of the first schedule have
\* returned, the collaborator ran once, and the document shows the session
\* completed with the first invocation's completed_at
C12_Witness ==
    /\ \A p \in Runners : proc[p].pc = "done" /\ proc[p].session_id = 0
    /\ \A g \in Generators : g # MaxRunners + 1 => proc[g].pc = "idle"
    /\ schedule_file.state = "written"
    /\ HasSession(schedule_file.doc, 0)
    /\ SessionOf(schedule_file.doc, 0).status = "completed"
    /\ SessionOf(schedule_file.doc, 0).completed_at = Reading(1, 2)
    /\ calls.scrape[schedule_file.doc.week_of][0] = 1

\* the three shapes of a session
SessionShape(session) ==
    \/ /\ session.status = "pending"
       /\ session.started_at = None /\ session.completed_at = None
    \/ /\ session.status = "in_progress"
       /\ session.started_at # None /\ session.completed_at = None
    \/ /\ Terminal(session.status)
       /\ session.started_at # None /\ session.completed_at # None

\* C13: in every document the file holds complete, also after a process
\* was killed at any step, every session is pending with both timestamps
\* null, in_progress with started_at set and completed_at null, or
\* completed/failed with both set; completed_at is set exactly when the
\* status is terminal.
C13_SessionShapes ==
    schedule_file.state = "written" =>
        \A k \in DOMAIN schedule_file.doc.sessions :
            /\ SessionShape(schedule_file.doc.sessions[k])
            /\ (schedule_file.doc.sessions[k].completed_at # None
                   <=> Terminal(schedule_file.doc.sessions[k].status))

\* C13 witness: a runner was killed while its session was in_progress, and
\* the document shows that session beside one that reached a terminal state
C13_Witness ==
    /\ schedule_file.state = "written"
    /\ \E p \in Runners :
          /\ proc[p].pc = "crashed"
          /\ HasSession(schedule_file.doc, proc[p].session_id)
          /\ SessionOf(schedule_file.doc, proc[p].session_id).status = "in_progress"
          /\ SessionOf(schedule_file.doc, proc[p].session_id).started_at = Reading(p, 1)
    /\ \E k \in DOMAIN schedule_file.doc.sessions :
          /\ Terminal(schedule_file.doc.sessions[k].status)
          /\ schedule_file.doc.sessions[k].completed_at # None

\* C14: while scrape_companies runs for a session, the persisted document
\* is the runner's schedule and shows that session in_progress with
\* started_at set.
C14_InProgressWhileRunning ==
    \A p \in Runners :
        proc[p].pc = "scrape" =>
            /\ persisted.week_of = proc[p].schedule.week_of
            /\ HasSession(persisted, proc[p].session_id)
            /\ SessionOf(persisted, proc[p].session_id).status = "in_progress"
            /\ SessionOf(persisted, proc[p].session_id).started_at # None

\* what C15 asks of the decision generate_and_install takes on loading the
\* previous schedule, and of the place of the completion path: it is entered
\* exactly when the document loaded exists, has digest_sent false and holds
\* a completed or failed session, and it is entered while the previous
\* schedule is the one persisted
SafetyNetDecision(g) ==
    /\ (proc[g].pc = "idle" /\ proc'[g].pc # "idle") =>
          (proc'[g].pc = "send"
             <=> /\ schedule_file.state = "written"
                 /\ ~schedule_file.doc.digest_sent
                 /\ \E k \in DOMAIN schedule_file.doc.sessions :
                       Terminal(schedule_file.doc.sessions[k].status))
    /\ (proc[g].pc = "idle" /\ proc'[g].pc = "send") =>
          /\ proc'[g].schedule = schedule_file.doc
          /\ persisted.week_of < next_monday(GenDay(g))
    /\ (proc[g].pc # "idle" /\ proc'[g].pc = "send") => proc[g].pc = "send"
    /\ (proc[g].pc # "read_csv" /\ proc'[g].pc = "gsave_open") => proc[g].pc = "gsave_open"

\* C15 as claimed: generate_and_install runs the completion path on the
\* previous schedule exactly when it exists, is not digest-sent and has a
\* terminal session; when it runs, the digest of the previous week is sent
\* (before the new schedule is built and persisted).
C15_SafetyNetSendsDigest ==
    [][\A g \in Generators :
          /\ SafetyNetDecision(g)
          /\ (proc[g].pc = "send" /\ proc'[g].pc # "send") =>
                /\ proc'[g].pc = "save3_open"
                /\ calls'.digest[proc[g].schedule.week_of]
                      = Counted(calls.digest[proc[g].schedule.week_of])]_vars

\* C15 as amended: the same, the digest being sent when a recipient is
\* configured; with none configured the completion path goes on without a
\* send.
C15_SafetyNetSendsDigestIfRecipients ==
    [][\A g \in Generators :
          /\ SafetyNetDecision(g)
          /\ (proc[g].pc = "send" /\ proc'[g].pc # "send") =>
                /\ proc'[g].pc = "save3_open"
                /\ calls'.digest[proc[g].schedule.week_of]
                      = IF recipients
                        THEN Counted(calls.digest[proc[g].schedule.week_of])
                        ELSE calls.digest[proc[g].schedule.week_of]]_vars

\* C15 witness: generate has just sent the digest of a previous schedule
\* that holds a pending session beside a terminal one, the previous
\* schedule being the one persisted
C15_Witness ==
    \E g \in Generators :
        /\ proc[g].pc = "save3_open"
        /\ recipients
        /\ calls.digest[proc[g].schedule.week_of] >= 1
        /\ persisted.week_of = proc[g].schedule.week_of
        /\ \E k \in DOMAIN proc[g].schedule.sessions :
              proc[g].schedule.sessions[k].status = "pending"
        /\ \E k \in DOMAIN proc[g].schedule.sessions :
              Terminal(proc[g].schedule.sessions[k].status)

\* generate_and_install has stopped on an empty company list
StoppedOnEmptyList(g) == proc[g].pc = "done" /\ proc[g].error = "NoCompanies"

FreshSchedule(schedule) ==
    /\ ~schedule.digest_sent
    /\ schedule.sessions # <<>>
    /\ \A k \in DOMAIN schedule.sessions :
          /\ schedule.sessions[k].status = "pending"
          /\ schedule.sessions[k].started_at = None
          /\ schedule.sessions[k].completed_at = None

\* C17: with a non-empty company list, generate_and_install saves a new
\* schedule (digest_sent false, every session pending with both timestamps
\* null, week_of the next Monday), and reads and writes the trigger table
\* for it only after that save has returned; the triggers it installs are
\* those of the schedule it saved.
C17_PersistThenInstall ==
    [][\A g \in Generators :
          /\ (proc[g].pc = "gsave_dump" /\ proc'[g].pc # "gsave_dump") =>
                /\ FreshSchedule(proc[g].schedule)
                /\ proc[g].schedule.week_of = next_monday(GenDay(g))
                /\ schedule_file'.state = "written" => schedule_file'.doc = proc[g].schedule
                /\ proc'[g].pc = "inst_read"
                /\ proc'[g].schedule = proc[g].schedule
                /\ crontab' = crontab
          /\ (proc[g].pc # "inst_read" /\ proc'[g].pc = "inst_read") =>
                proc[g].pc = "gsave_dump"
          /\ (proc[g].pc # "inst_write" /\ proc'[g].pc = "inst_write") =>
                proc[g].pc = "inst_read" /\ proc'[g].schedule = proc[g].schedule
          /\ (proc[g].pc = "inst_write" /\ proc'[g].pc # "inst_write") =>
                SelectSeq(crontab', HasSessionTag)
                    = [k \in DOMAIN proc[g].schedule.sessions |->
                           SessionLine(proc[g].schedule.sessions[k])]]_vars

\* C17 witness: generate has saved the new schedule, which the file holds,
\* and has read the trigger table, which holds no trigger of it yet
C17_Witness ==
    \E g \in Generators :
        /\ proc[g].pc = "inst_write"
        /\ schedule_file.state = "written"
        /\ schedule_file.doc = proc[g].schedule
        /\ FreshSchedule(schedule_file.doc)
        /\ Len(schedule_file.doc.sessions) = 2
        /\ \A k \in DOMAIN crontab : ~HasSessionTag(crontab[k])

(***************************************************************************)
(* The crontab functions as functions of the table: the table is drawn at  *)
(* the start (at most one line with the meta tag: the scheduler is the     *)
(* only writer of tagged lines), and each step is one call, its read and   *)
(* its write together, of one of the functions.                            *)
(***************************************************************************)
AnotherLine == [kind |-> "other", minute |-> 30, hour |-> 4, day |-> 0, session_id |-> 0]
StaleSessionLine == [kind |-> "session", minute |-> 45, hour |-> 20, day |-> 6, session_id |-> 1]

CronLines == {OtherLine, AnotherLine, LegacyLine, MetaLine, StaleSessionLine, BlankLine}

CronTables ==
    {t \in UNION {[1..n -> CronLines] : n \in 0..MaxLines} :
        Cardinality({k \in DOMAIN t : HasMetaTag(t[k])}) <= 1}

\* the schedules install_session_crons is called with
CronSchedules == generate_weekly_schedule(FullList, GenDay(MaxRunners + 1), SlotDraws)

InitCron ==
    /\ InitFiles
    /\ crontab \in CronTables
    /\ GenIdle /\ SlotIdle /\ SlotRunIdle /\ CronIdle

CronFrame ==
    UNCHANGED <<schedule_file, csv, output_files, recipients, proc, calls, persisted,
                gen_in, gen_out, slot_in, slot_out, slot_run>>

InstallSessionCrons(schedule) ==
    /\ crontab' = install_session_crons(crontab, schedule)
    /\ cron_call' = [op |-> "install_session_crons", schedule |-> schedule, before |-> <<>>]
    /\ CronFrame

InstallMetaCron ==
    /\ crontab' = install_meta_cron(crontab)
    /\ cron_call' = [op |-> "install_meta_cron", schedule |-> NoSchedule, before |-> <<>>]
    /\ CronFrame

RemoveSessionCrons ==
    /\ crontab' = remove_session_crons(crontab)
    /\ cron_call' = [op |-> "remove_session_crons", schedule |-> NoSchedule, before |-> crontab]
    /\ CronFrame

RemoveAllArmitageCrons ==
    /\ crontab' = remove_all_armitage_crons(crontab)
    /\ cron_call' = [op |-> "remove_all_armitage_crons", schedule |-> NoSchedule, before |-> crontab]
    /\ CronFrame

RemoveOldStyleCron ==
    /\ crontab' = _remove_old_style_cron(crontab)
    /\ cron_call' = [op |-> "_remove_old_style_cron", schedule |-> NoSchedule, before |-> <<>>]
    /\ CronFrame

NextCron ==
    \/ \E schedule \in CronSchedules : InstallSessionCrons(schedule)
    \/ InstallMetaCron
    \/ RemoveSessionCrons
    \/ RemoveAllArmitageCrons
    \/ RemoveOldStyleCron

SpecCron == InitCron /\ [][NextCron]_vars

\* the lines of the table that carry the session tag, in their order
SessionLines(table) == SelectSeq(table, HasSessionTag)

\* C18: after install_session_crons(schedule), whatever the table held,
\* its session-tagged lines are exactly the lines of the schedule's
\* sessions (minute, hour, day, session_id), one for each, and a second
\* call with the same schedule leaves the table as the first made it.
C18_InstallReplaces ==
    [][cron_call'.op = "install_session_crons" =>
          /\ SessionLines(crontab')
                = [k \in DOMAIN cron_call'.schedule.sessions |->
                       SessionLine(cron_call'.schedule.sessions[k])]
          /\ install_session_crons(crontab', cron_call'.schedule) = crontab']_vars

\* C18 witness: install_session_crons was called for a schedule of two
\* sessions on a table that held another schedule's session line, which is
\* gone
C18_Witness ==
    /\ cron_call.op = "install_session_crons"
    /\ Len(cron_call.schedule.sessions) = 2
    /\ Len(SessionLines(crontab)) = 2
    /\ \A k \in DOMAIN crontab : crontab[k] # StaleSessionLine
    /\ \E k \in DOMAIN crontab : crontab[k] = AnotherLine

\* the lines of the table that carry the meta tag
MetaLines(table) == SelectSeq(table, HasMetaTag)

\* C19: after any sequence of calls of the crontab functions the table
\* holds at most one line with the meta tag; install_meta_cron leaves a
\* table that holds one as it is, and leaves one in any table.
C19_OneMetaCron ==
    [][/\ Len(MetaLines(crontab')) <= 1
       /\ cron_call'.op = "install_meta_cron" =>
             /\ Len(MetaLines(crontab')) = 1
             /\ Len(MetaLines(crontab)) = 1 => crontab' = crontab]_vars

\* C19 witness: install_meta_cron was called on a table that held the meta
\* line (a line follows it: it was not appended by this call)
C19_Witness ==
    /\ cron_call.op = "install_meta_cron"
    /\ Len(MetaLines(crontab)) = 1
    /\ Len(crontab) >= 2
    /\ HasMetaTag(crontab[1])
    /\ HasSessionTag(crontab[Len(crontab)])

\* the lines of other concerns: neither tagged nor empty
UntaggedLines(table) ==
    SelectSeq(table, LAMBDA l : ~HasSessionTag(l) /\ ~HasMetaTag(l) /\ l # BlankLine)

\* C20: every function that rewrites the table keeps the lines that carry
\* neither tag: the same lines in the same order.
C20_UntaggedPreserved ==
    [][UntaggedLines(crontab') = UntaggedLines(crontab)]_vars

\* C21: remove_session_crons, the last step of the completion path, leaves
\* no line with the session tag and keeps the lines with the meta tag;
\* remove_all_armitage_crons leaves no line with either tag.
C21_RemoveByTag ==
    [][/\ cron_call'.op = "remove_session_crons" =>
             /\ SessionLines(crontab') = <<>>
             /\ MetaLines(crontab') = MetaLines(cron_call'.before)
       /\ cron_call'.op = "remove_all_armitage_crons" =>
             /\ SessionLines(crontab') = <<>>
             /\ MetaLines(crontab') = <<>>]_vars

\* C21 witness: remove_session_crons was called on a table that held a
\* session line, the meta line and a line of another concern
C21_Witness ==
    /\ cron_call.op = "remove_session_crons"
    /\ SessionLines(cron_call.before) # <<>>
    /\ MetaLines(cron_call.before) = <<MetaLine>>
    /\ crontab = SelectSeq(cron_call.before, LAMBDA l : ~HasSessionTag(l))
    /\ \E k \in DOMAIN crontab : crontab[k] = OtherLine

\* C22: the completion path goes from the send to the save whatever the
\* send did (returned true, returned false, raised, or was not called): no
\* exception leaves it, the document it then saves is the one it was given
\* with digest_sent true, and once that save has returned the file, unless
\* another writer has written into it meanwhile, holds that document.
C22_DigestSentWhateverSend ==
    [][\A p \in Procs :
          /\ (proc[p].pc = "send" /\ proc'[p].pc # "send") =>
                /\ proc'[p].sent \in {"true", "false", "raises", "skipped"}
                /\ proc'[p].pc = "save3_open"
                /\ proc'[p].error = "none"
                /\ proc'[p].schedule = [proc[p].schedule EXCEPT !.digest_sent = TRUE]
          /\ (proc[p].pc = "save3_open" /\ proc'[p].pc # "save3_open") =>
                /\ proc'[p].pc = "save3_dump"
                /\ proc'[p].schedule = proc[p].schedule
          /\ (proc[p].pc = "save3_dump" /\ proc'[p].pc # "save3_dump") =>
                /\ proc[p].schedule.digest_sent
                /\ proc'[p].pc = "cleanup"
                /\ schedule_file = Truncated =>
                      /\ schedule_file' = Written(proc[p].schedule)
                      /\ persisted'.digest_sent
                /\ schedule_file'.state = "written" =>
                      schedule_file'.doc = proc[p].schedule]_vars

\* C22 witness: the send raised, and the completion path has saved the
\* schedule with digest_sent true and gone on to the cleanup
C22_Witness ==
    \E p \in Runners :
        /\ proc[p].pc = "cleanup"
        /\ proc[p].sent = "raises"
        /\ proc[p].error = "none"
        /\ schedule_file.state = "written"
        /\ schedule_file.doc.digest_sent
        /\ schedule_file.doc = proc[p].schedule

\* C23: one run_session on a pending session calls scrape_companies once
\* (it comes to the call from its first save only, and leaves it for the
\* second save).  When the call returns the session is completed, when it
\* raises the session is failed, with completed_at set; no exception leaves
\* run_session; the second save, unless another writer has written into the
\* file meanwhile, leaves the file holding that document.  After the save
\* the invocation never comes back to the call, and an invocation that
\* loads the session as failed returns without calling scrape_companies.
C23_ScrapeOutcome ==
    [][\A p \in Runners :
          LET w == proc[p].schedule.week_of
              session_id == proc[p].session_id
          IN  /\ (proc[p].pc # "scrape" /\ proc'[p].pc = "scrape") =>
                    proc[p].pc = "save1_dump"
              /\ (proc[p].pc # "save1_open" /\ proc'[p].pc = "save1_open") =>
                    proc[p].pc = "idle"
              /\ proc[p].pc # "idle" => proc'[p].pc # "idle"
              /\ (proc[p].pc = "scrape" /\ proc'[p].pc # "scrape") =>
                    /\ calls'.scrape[w][session_id] = Counted(calls.scrape[w][session_id])
                    /\ proc'[p].pc = "save2_open"
                    /\ proc'[p].error = "none"
                    /\ proc'[p].scraped \in {"returns", "raises"}
                    /\ SessionOf(proc'[p].schedule, session_id).status
                          = (IF proc'[p].scraped = "returns" THEN "completed" ELSE "failed")
                    /\ SessionOf(proc'[p].schedule, session_id).completed_at # None
              /\ (proc[p].pc # "scrape" \/ proc'[p].pc = "scrape") =>
                    \A v \in Weeks, sid \in SessionIds :
                       (\A q \in Runners \ {p} : proc[q].pc # "scrape")
                          => calls'.scrape[v][sid] = calls.scrape[v][sid]
              /\ (proc[p].pc = "save2_dump" /\ proc'[p].pc # "save2_dump") =>
                    /\ proc'[p].pc = "check"
                    /\ schedule_file = Truncated =>
                          schedule_file' = Written(proc[p].schedule)
                    /\ schedule_file'.state = "written" =>
                          /\ schedule_file'.doc = proc[p].schedule
                          /\ SessionOf(schedule_file'.doc, session_id).status
                                = (IF proc[p].scraped = "returns"
                                   THEN "completed" ELSE "failed")
              /\ (/\ proc[p].pc = "idle" /\ proc'[p].pc # "idle"
                  /\ schedule_file.state = "written"
                  /\ HasSession(schedule_file.doc, proc'[p].session_id)
                  /\ SessionOf(schedule_file.doc, proc'[p].session_id).status = "failed")
                    => /\ proc'[p].pc = "done"
                       /\ calls' = calls]_vars

\* C23 witness: scrape_companies raised, the invocation went on and its
\* second save has left the session failed in the file
C23_Witness ==
    \E p \in Runners :
        /\ proc[p].pc = "check"
        /\ proc[p].scraped = "raises"
        /\ proc[p].error = "none"
        /\ schedule_file.state = "written"
        /\ SessionOf(schedule_file.doc, proc[p].session_id).status = "failed"
        /\ SessionOf(schedule_file.doc, proc[p].session_id).completed_at # None
        /\ calls.scrape[schedule_file.doc.week_of][proc[p].session_id] = 1

\* C24: a run_session that finds no schedule file, or finds a schedule
\* that holds no session with its session_id, returns at once and changes
\* nothing: the file (or its absence), the persisted document, the trigger
\* table and the data files stay as they were, neither scrape_companies nor
\* the digest send is called, and the process takes no further step.
C24_NoScheduleOrUnknownId ==
    [][\A p \in Runners :
          /\ (/\ proc[p].pc = "idle" /\ proc'[p].pc # "idle"
              /\ \/ schedule_file.state = "absent"
                 \/ /\ schedule_file.state = "written"
                    /\ \A k \in DOMAIN schedule_file.doc.sessions :
                          schedule_file.doc.sessions[k].session_id # proc'[p].session_id)
             => /\ proc'[p].pc = "done"
                /\ proc'[p].error = "none"
                /\ UNCHANGED <<schedule_file, persisted, calls, crontab, csv, output_files>>
          /\ (proc[p].pc = "done" /\ proc[p].schedule = NoSchedule) =>
                proc'[p].pc = "done"]_vars

\* C24 witness: the first invocation, for session 0, found no schedule file
\* and returned (session 0 of the schedule made since is still pending and
\* was never scraped); the second, for an id the schedule of one session
\* does not hold, has returned too, and the schedule is as generated
C24_Witness ==
    /\ proc[1].pc = "done" /\ proc[1].session_id = 0
    /\ proc[2].pc = "done" /\ proc[2].session_id = 1
    /\ schedule_file.state = "written"
    /\ FreshSchedule(schedule_file.doc)
    /\ Len(schedule_file.doc.sessions) = 1
    /\ schedule_file.doc.sessions[1].session_id = 0
    /\ \A w \in Weeks : \A sid \in SessionIds : calls.scrape[w][sid] = 0
    /\ \A w \in Weeks : calls.digest[w] = 0
    /\ \E k \in DOMAIN crontab : HasSessionTag(crontab[k])

\* how many of the slots fall on this day
SlotsOnDay(slots, day) == Cardinality({k \in DOMAIN slots : slots[k][1] = day})

\* C25: the days of the slots _assign_schedule_slots returns: every slot
\* is on a day of 1..6 and there are num_sessions of them; with
\* num_sessions <= 6 no two slots share a day; with num_sessions > 6 every
\* day of 1..6 holds num_sessions \div 6 slots or one more (the ceiling), so
\* that two days differ by at most one.
C25_DaysSpread ==
    slot_out.done =>
        /\ Len(slot_out.slots) = slot_in
        /\ \A k \in DOMAIN slot_out.slots : slot_out.slots[k][1] \in 1..6
        /\ slot_in <= 6 =>
              \A day \in 1..6 : SlotsOnDay(slot_out.slots, day) <= 1
        /\ slot_in > 6 =>
              \A day \in 1..6 :
                 SlotsOnDay(slot_out.slots, day)
                    \in {slot_in \div 6, (slot_in + 5) \div 6}

\* C25 witness: more than six sessions were asked for, and one day holds
\* two slots while another holds one
C25_Witness ==
    /\ slot_out.done
    /\ slot_in > 6
    /\ \E d, e \in 1..6 :
          /\ SlotsOnDay(slot_out.slots, d) = 2
          /\ SlotsOnDay(slot_out.slots, e) = 1

(***************************************************************************)
(* _assign_schedule_slots step by step: one step chooses the days, then    *)
(* every step is one pass of the retry loop (one draw of an hour) or the   *)
(* end of a slot (the unchecked draw when no hour was found, the minute,   *)
(* the append).  The hours are drawn from the two ends of the window, the  *)
(* minute is the last of the hour.                                         *)
(***************************************************************************)
StepDraws == [perms |-> {"id", "rev"},
              hours |-> {SCRAPE_HOUR_START, SCRAPE_HOUR_END - 1},
              minutes |-> {59}]

InitSlotSteps ==
    /\ InitScheduler
    /\ GenIdle /\ SlotIdle /\ CronIdle
    /\ \E num_sessions \in 0 .. MaxSessions :
          slot_run = [num_sessions |-> num_sessions, day_assignments |-> <<>>,
                      k |-> 0, tries |-> 0, hour |-> None, used_slots |-> {},
                      slots |-> <<>>, pc |-> "days"]

SlotStepsFrame ==
    UNCHANGED <<gen_in, gen_out, slot_in, slot_out, cron_call, sched_vars>>

\* where the for loop over day_assignments goes with its k-th day
ForDay(day_assignments, k) ==
    IF k > Len(day_assignments) THEN "returned" ELSE "retry"

\* lines 85-102: the days, and the empty used_slots and slots
SlotSteps_Days ==
    /\ slot_run.pc = "days"
    /\ \E day_assignments \in DayAssignments(slot_run.num_sessions, StepDraws) :
          slot_run' = [slot_run EXCEPT !.day_assignments = day_assignments,
                                       !.k = 1,
                                       !.pc = ForDay(day_assignments, 1)]
    /\ SlotStepsFrame

\* a retry loop with no bound
RetriesLeft_Forever(tries) == TRUE

\* for _ in range(50): another pass is made while fewer than 50 were
RetriesLeft(tries) == tries < HOUR_RETRIES

\* lines 105-110: one pass of the retry loop
SlotSteps_Retry ==
    /\ slot_run.pc = "retry"
    /\ RetriesLeft(slot_run.tries)
    /\ LET day == slot_run.day_assignments[slot_run.k]
       IN  \E h \in StepDraws.hours :
              slot_run' =
                 IF <<day, h>> \notin slot_run.used_slots
                 THEN [slot_run EXCEPT !.tries = @ + 1,
                                       !.hour = h,
                                       !.used_slots = @ \cup {<<day, h>>},
                                       !.pc = "minute"]
                 ELSE [slot_run EXCEPT !.tries = @ + 1]
    /\ SlotStepsFrame

\* the loop has made its 50 passes without a break
SlotSteps_Exhausted ==
    /\ slot_run.pc = "retry"
    /\ ~RetriesLeft(slot_run.tries)
    /\ slot_run' = [slot_run EXCEPT !.pc = "minute"]
    /\ SlotStepsFrame

\* lines 111-114: the unchecked draw when hour is None, the minute, the
\* append; then the next day of the for loop
SlotSteps_Append ==
    /\ slot_run.pc = "minute"
    /\ LET day == slot_run.day_assignments[slot_run.k]
       IN  \E h \in StepDraws.hours, minute \in StepDraws.minutes :
              LET hour == IF slot_run.hour = None THEN h ELSE slot_run.hour
              IN  slot_run' = [slot_run EXCEPT
                     !.slots = Append(@, <<day, hour, minute>>),
                     !.k = @ + 1,
                     !.tries = 0,
                     !.hour = None,
                     !.pc = ForDay(slot_run.day_assignments, slot_run.k + 1)]
    /\ SlotStepsFrame

NextSlotSteps ==
    \/ SlotSteps_Days
    \/ SlotSteps_Retry
    \/ SlotSteps_Exhausted
    \/ SlotSteps_Append

\* the function runs on: no step of it waits for anything
SpecSlotSteps == InitSlotSteps /\ [][NextSlotSteps]_vars /\ WF_vars(NextSlotSteps)

\* the slots are well formed: a day of Monday..Saturday, an hour of the
\* window, a minute of the hour
SlotInRange(slot) ==
    /\ slot[1] \in 1..6
    /\ slot[2] \in 9..20
    /\ slot[3] \in 0..59

\* C26: for every num_sessions >= 0 and every outcome of the draws,
\* _assign_schedule_slots makes at most 50 passes of its retry loop for a
\* slot and returns; what it returns are num_sessions slots, each with its
\* day in 1..6, its hour in 9..20 and its minute in 0..59, also when every
\* pass for a slot has hit a used (day, hour).
C26_SlotsTerminate ==
    /\ [](slot_run.tries <= 50)
    /\ [](slot_run.pc = "returned" =>
            /\ Len(slot_run.slots) = slot_run.num_sessions
            /\ \A k \in DOMAIN slot_run.slots : SlotInRange(slot_run.slots[k]))
    /\ <>(slot_run.pc = "returned")

\* C26 witness: a day was given two slots, the retry loop for the second
\* made its 50 passes without finding a free hour, and the function
\* returned the seven slots asked for, two on the same day and hour
C26_Witness ==
    /\ slot_run.pc = "returned"
    /\ slot_run.num_sessions = 7
    /\ Len(slot_run.slots) = 7
    /\ Cardinality(slot_run.used_slots) = 6
    /\ \E j, k \in DOMAIN slot_run.slots :
          /\ j # k
          /\ slot_run.slots[j][1] = slot_run.slots[k][1]
          /\ slot_run.slots[j][2] = slot_run.slots[k][2]
          /\ slot_run.slots[j][2] = SCRAPE_HOUR_END - 1
          /\ slot_run.slots[k][3] = 59

\* C27: on whatever weekday generate_weekly_schedule runs, week_of is a
\* Monday after the generation day and at most 7 days after it (a week
\* later when it runs on a Monday, the next day when it runs on a Sunday),
\* and every session's date is week_of plus (day - 1) days, the weekday its
\* cron day names.
C27_WeekOfNextMonday ==
    gen_out.done =>
        LET week_of == gen_out.schedule.week_of
            today == gen_in.today
        IN  /\ week_of % 7 = 0
            /\ week_of > today
            /\ week_of <= today + 7
            /\ today % 7 = 0 => week_of = today + 7
            /\ today % 7 = 6 => week_of = today + 1
            /\ \A k \in DOMAIN gen_out.schedule.sessions :
                  LET session == gen_out.schedule.sessions[k]
                  IN  /\ session.date = week_of + (session.day - 1)
                      /\ session.date % 7 = session.day - 1

\* C27 witness: generated on a Monday, the schedule is for the Monday a
\* week later and holds a session on a later day of that week
C27_Witness ==
    /\ gen_out.done
    /\ gen_in.today % 7 = 0
    /\ gen_out.schedule.week_of = gen_in.today + 7
    /\ \E k \in DOMAIN gen_out.schedule.sessions :
          /\ gen_out.schedule.sessions[k].day > 1
          /\ gen_out.schedule.sessions[k].date
                = gen_in.today + 6 + gen_out.schedule.sessions[k].day

\* C28: when every session of the schedule the file holds has been run once
\* through run_session, every invocation has returned and no later
\* generation has started, the completion has taken place: the file shows
\* every session completed or failed and digest_sent true, and the working
\* directories have been emptied.
C28_AllRunThenComplete ==
    \A w \in Weeks :
        (/\ schedule_file.state = "written"
         /\ schedule_file.doc.week_of = w
         /\ \A k \in DOMAIN schedule_file.doc.sessions :
               calls.scrape[w][schedule_file.doc.sessions[k].session_id] = 1
         /\ \A p \in Runners : proc[p].pc = "done"
         /\ \A g \in Generators :
               IF next_monday(GenDay(g)) <= w THEN proc[g].pc = "done"
               ELSE proc[g].pc = "idle")
        => /\ _all_sessions_done(schedule_file.doc)
           /\ schedule_file.doc.digest_sent
           /\ calls.cleanup[w] >= 1

\* C29: the cleanup of the completion path leaves the company list in
\* place: no generate_and_install that comes to read the list after a
\* cleanup fails because the file is missing.
C29_CleanupKeepsCompanyList ==
    \A g \in Generators : proc[g].error # "FileNotFoundError"

\* the completion path has been entered for the schedule of this week
CompletionFired(w) ==
    \/ calls.uncron[w] > 0
    \/ \E p \in Procs :
          /\ proc[p].pc \in {"send", "save3_open", "save3_dump", "cleanup",
                             "rm_read", "rm_write"}
          /\ proc[p].schedule.week_of = w

\* C30: once generate_and_install has returned having saved a new schedule
\* and installed its triggers, and as long as the completion path has not
\* been entered for that schedule (and no later generation has started),
\* the session-tagged lines of the trigger table are the lines of that
\* schedule's sessions, one for each.
C30_TriggersMatchSchedule ==
    \A g \in Generators :
        (/\ proc[g].pc = "done"
         /\ proc[g].schedule.week_of = next_monday(GenDay(g))
         /\ ~CompletionFired(next_monday(GenDay(g)))
         /\ \A later \in Generators : later > g => proc[later].pc = "idle")
        => SessionLines(crontab)
              = [k \in DOMAIN proc[g].schedule.sessions |->
                     SessionLine(proc[g].schedule.sessions[k])]

====
